---- MODULE Spec2Model ----
(***************************************************************************)
(* Model of the user-registration route handler                            *)
(* src/app/api/auth/register/route.ts (POST) together with its two         *)
(* collaborators, the Identity Store (prisma.user) and the password hasher *)
(* (bcrypt).  Every await of the handler is an interleaving point: a       *)
(* request is one process that runs Receive, FindUnique, Hash and Create,  *)
(* each of which may end the request with a response.                      *)
(***************************************************************************)
EXTENDS Integers, FiniteSets, Sequences, TLC

\* ------------------------------------------------------------------ bounds

\* Number of registration requests that may be in flight at the same time.
NumReqs == 2

Reqs == 1..NumReqs

\* ------------------------------------------------------- request payloads

\* A field that is absent from the JSON object (destructures to undefined).
Missing == "<undefined>"

\* The empty string.
Empty == ""

Names == {"Sam"}
Emails == {"sam@x.com", "ann@x.com"}
Passwords == {"pw123456"}

\* The values each destructured field may take.
NameValues == Names \cup {Missing, Empty}
EmailValues == Emails \cup {Missing, Empty}
PasswordValues == Passwords \cup {Missing, Empty}

\* What `await req.json()` is applied to: a body that is not JSON, the JSON
\* value null, or a JSON object with (some of) the three fields.
Bodies ==
    [kind : {"object"}, name : NameValues, email : EmailValues,
     password : PasswordValues]
    \cup
    [kind : {"unparsable", "null"}, name : {Missing}, email : {Missing},
     password : {Missing}]

NoBody == [kind |-> "none", name |-> Missing, email |-> Missing,
           password |-> Missing]

\* JavaScript truthiness of a field value: `!x` is true of undefined and "".
Truthy(v) == v # Missing /\ v # Empty

\* Variant of the guard that forgets the password.
AllFieldsPresentNoPassword(b) == Truthy(b.name) /\ Truthy(b.email)

\* The guard of line 9 negated: all three fields present and non-empty.
AllFieldsPresent(b) == Truthy(b.name) /\ Truthy(b.email) /\ Truthy(b.password)

\* ------------------------------------------------------------ thrown errors

\* The class names for which `constructor.name.startsWith('PrismaClient')`.
PrismaClientNames ==
    {"PrismaClientInitializationError", "PrismaClientKnownRequestError",
     "PrismaClientUnknownRequestError", "PrismaClientRustPanicError",
     "PrismaClientValidationError"}

StartsWithPrismaClient(s) == s \in PrismaClientNames

\* An Error object as the catch block sees it: its name, the name of its
\* constructor, whether its message contains 'DATABASE_URL', and the Prisma
\* error code ("" when it has none).
Err(n, dbUrl, code) ==
    [name |-> n, ctor |-> n, mentionsDbUrl |-> dbUrl, code |-> code]

NoError == Err("none", FALSE, "")

\* req.json() rejects on a body that is not JSON.
SyntaxErr == Err("SyntaxError", FALSE, "")

\* Destructuring null throws.
TypeErr == Err("TypeError", FALSE, "")

\* bcrypt.hash rejects.
HashErr == Err("Error", FALSE, "")

\* The store rejects an insert that breaks the unique index on email.
UniqueErr == Err("PrismaClientKnownRequestError", FALSE, "P2002")

\* The store cannot be reached or is misconfigured.
InitErrors ==
    {Err("PrismaClientInitializationError", d, "") : d \in BOOLEAN}

\* The failures of a store call other than a constraint violation.
StoreErrors ==
    InitErrors
    \cup {Err("PrismaClientKnownRequestError", FALSE, "P2024"),
          Err("PrismaClientUnknownRequestError", TRUE, "")}

\* ---------------------------------------------------------------- responses

Resp(s, m) == [status |-> s, message |-> m]

NoResp == Resp(0, "")

Created == Resp(201, "User registered successfully")
BadRequest == Resp(400, "All fields are required")
Conflict == Resp(409, "User with this email already exists")
ConfigError ==
    Resp(500, "Server configuration error: Database connection failed. Please contact support.")
DatabaseError == Resp(500, "A database error occurred during registration.")
UnexpectedError ==
    Resp(500, "An unexpected error occurred. Please try again later.")

\* Variant that tests the PrismaClient prefix before the initialization test.
ClassifyErrorPrefixFirst(e) ==
    IF StartsWithPrismaClient(e.ctor)
    THEN DatabaseError
    ELSE IF e.name = "PrismaClientInitializationError" \/ e.mentionsDbUrl
         THEN ConfigError
         ELSE UnexpectedError

\* Variant that puts the caught error's text in the 500 body.
ClassifyErrorLeaky(e) ==
    IF e.name = "PrismaClientInitializationError" \/ e.mentionsDbUrl
    THEN ConfigError
    ELSE Resp(500, e.name)

\* Variant without the PrismaClient branch.
ClassifyErrorNoPrismaBranch(e) ==
    IF e.name = "PrismaClientInitializationError" \/ e.mentionsDbUrl
    THEN ConfigError
    ELSE UnexpectedError

\* The catch block, lines 33-48: the response for a caught error.
ClassifyError(e) ==
    IF e.name = "PrismaClientInitializationError" \/ e.mentionsDbUrl
    THEN ConfigError
    ELSE IF StartsWithPrismaClient(e.ctor)
         THEN DatabaseError
         ELSE UnexpectedError

\* ------------------------------------------------------------------- hasher

\* bcrypt's work factor, the second argument of bcrypt.hash.
SaltRounds == 10

Salts == {"salt1", "salt2"}

\* bcrypt.hash(password, rounds) with the salt it drew: a value that embeds
\* algorithm, cost and salt, and from which the password cannot be read.
BcryptHash(pw, rounds, salt) ==
    [kind |-> "bcrypt", cost |-> rounds, salt |-> salt, digestOf |-> pw]

\* A stored value that is the text itself.
Plain(pw) == [kind |-> "plain", cost |-> 0, salt |-> "", digestOf |-> pw]

NoHash == [kind |-> "none", cost |-> 0, salt |-> "", digestOf |-> ""]

\* -------------------------------------------------------------------- state

VARIABLES
    store,       \* the Identity Store: the set of Account rows
    nextId,      \* the store's identifier generator
    pc,          \* pc[r]: where request r is in the handler
    body,        \* body[r]: the payload of request r
    hashed,      \* hashed[r]: the handler's local hashedPassword
    resp,        \* resp[r]: the response returned for r
    caught,      \* caught[r]: the error the catch block received
    reads,       \* reads[r]: findUnique calls made by r
    creates,     \* creates[r]: create calls made by r
    inserted,    \* inserted[r]: rows r's create committed
    existedAtStart  \* existedAtStart[r]: an Account with r's email existed
                    \* when r arrived

vars == <<store, nextId, pc, body, hashed, resp, caught, reads, creates,
          inserted, existedAtStart>>

AccountsWith(e) == {a \in store : a.email = e}

Init ==
    /\ store = {}
    /\ nextId = 1
    /\ pc = [r \in Reqs |-> "idle"]
    /\ body = [r \in Reqs |-> NoBody]
    /\ hashed = [r \in Reqs |-> NoHash]
    /\ resp = [r \in Reqs |-> NoResp]
    /\ caught = [r \in Reqs |-> NoError]
    /\ reads = [r \in Reqs |-> 0]
    /\ creates = [r \in Reqs |-> 0]
    /\ inserted = [r \in Reqs |-> 0]
    /\ existedAtStart = [r \in Reqs |-> FALSE]

\* The handler returns response x for request r.
Return(r, x) ==
    /\ resp' = [resp EXCEPT ![r] = x]
    /\ pc' = [pc EXCEPT ![r] = "done"]

\* An error e thrown inside the try block: caught, classified, returned.
Catch(r, e) ==
    /\ caught' = [caught EXCEPT ![r] = e]
    /\ Return(r, ClassifyError(e))

\* Lines 7-11: the request arrives, its body is parsed and destructured,
\* and the three fields are validated.
Receive(r) ==
    /\ pc[r] = "idle"
    /\ \E b \in Bodies :
        /\ body' = [body EXCEPT ![r] = b]
        /\ existedAtStart' =
              [existedAtStart EXCEPT ![r] = AccountsWith(b.email) # {}]
        /\ IF b.kind = "unparsable" THEN Catch(r, SyntaxErr)
           ELSE IF b.kind = "null" THEN Catch(r, TypeErr)
           ELSE IF ~AllFieldsPresent(b)
                THEN /\ Return(r, BadRequest)
                     /\ UNCHANGED caught
                ELSE /\ pc' = [pc EXCEPT ![r] = "lookup"]
                     /\ UNCHANGED <<resp, caught>>
    /\ UNCHANGED <<store, nextId, hashed, reads, creates, inserted>>

\* Variant that ignores the row findUnique returned.
FindUniqueIgnoresExisting(r) ==
    /\ pc[r] = "lookup"
    /\ reads' = [reads EXCEPT ![r] = @ + 1]
    /\ \/ \E e \in StoreErrors : Catch(r, e)
       \/ /\ pc' = [pc EXCEPT ![r] = "hash"]
          /\ UNCHANGED <<resp, caught>>
    /\ UNCHANGED <<store, nextId, body, hashed, creates, inserted,
                   existedAtStart>>

\* Variant that repeats a failed lookup once before giving up.
FindUniqueRetry(r) ==
    /\ pc[r] = "lookup"
    /\ reads' = [reads EXCEPT ![r] = @ + 1]
    /\ \/ /\ reads[r] = 0
          /\ UNCHANGED <<pc, resp, caught>>
       \/ /\ reads[r] > 0
          /\ \E e \in StoreErrors : Catch(r, e)
       \/ /\ AccountsWith(body[r].email) # {}
          /\ Return(r, Conflict)
          /\ UNCHANGED caught
       \/ /\ AccountsWith(body[r].email) = {}
          /\ pc' = [pc EXCEPT ![r] = "hash"]
          /\ UNCHANGED <<resp, caught>>
    /\ UNCHANGED <<store, nextId, body, hashed, creates, inserted,
                   existedAtStart>>

\* Lines 14-20: the existence check.
FindUnique(r) ==
    /\ pc[r] = "lookup"
    /\ reads' = [reads EXCEPT ![r] = @ + 1]
    /\ \/ \E e \in StoreErrors : Catch(r, e)
       \/ /\ AccountsWith(body[r].email) # {}
          /\ Return(r, Conflict)
          /\ UNCHANGED caught
       \/ /\ AccountsWith(body[r].email) = {}
          /\ pc' = [pc EXCEPT ![r] = "hash"]
          /\ UNCHANGED <<resp, caught>>
    /\ UNCHANGED <<store, nextId, body, hashed, creates, inserted,
                   existedAtStart>>

\* Line 22: the password is hashed.
Hash(r) ==
    /\ pc[r] = "hash"
    /\ \/ /\ Catch(r, HashErr)
          /\ UNCHANGED hashed
       \/ \E s \in Salts :
            /\ hashed' = [hashed EXCEPT
                            ![r] = BcryptHash(body[r].password, SaltRounds, s)]
            /\ pc' = [pc EXCEPT ![r] = "create"]
            /\ UNCHANGED <<resp, caught>>
    /\ UNCHANGED <<store, nextId, body, reads, creates, inserted,
                   existedAtStart>>

\* Variant: a table without the unique index.
NoUniqueIndex(e) == FALSE

\* The unique index on the email column of the accounts table.
UniqueViolation(e) == AccountsWith(e) # {}

\* Variant that stores the password as received.
NewUserPlaintext(r) ==
    [id |-> nextId, name |-> body[r].name, email |-> body[r].email,
     hashedPassword |-> Plain(body[r].password)]

\* The row prisma.user.create is asked to insert, lines 25-29.
NewUser(r) ==
    [id |-> nextId, name |-> body[r].name, email |-> body[r].email,
     hashedPassword |-> hashed[r]]

\* Variant that does not await the insert: the success response is returned
\* whatever becomes of the create call.
CreateNotAwaited(r) ==
    /\ pc[r] = "create"
    /\ creates' = [creates EXCEPT ![r] = @ + 1]
    /\ \/ /\ \/ \E e \in StoreErrors : TRUE
             \/ UniqueViolation(body[r].email)
          /\ UNCHANGED <<store, nextId, inserted>>
       \/ /\ ~UniqueViolation(body[r].email)
          /\ store' = store \cup {NewUser(r)}
          /\ nextId' = nextId + 1
          /\ inserted' = [inserted EXCEPT ![r] = @ + 1]
    /\ Return(r, Created)
    /\ UNCHANGED <<caught, body, hashed, reads, existedAtStart>>

\* Lines 24-32: the insert and the success response.
Create(r) ==
    /\ pc[r] = "create"
    /\ creates' = [creates EXCEPT ![r] = @ + 1]
    /\ \/ /\ \E e \in StoreErrors : Catch(r, e)
          /\ UNCHANGED <<store, nextId, inserted>>
       \/ /\ UniqueViolation(body[r].email)
          /\ Catch(r, UniqueErr)
          /\ UNCHANGED <<store, nextId, inserted>>
       \/ /\ ~UniqueViolation(body[r].email)
          /\ store' = store \cup {NewUser(r)}
          /\ nextId' = nextId + 1
          /\ inserted' = [inserted EXCEPT ![r] = @ + 1]
          /\ Return(r, Created)
          /\ UNCHANGED caught
    /\ UNCHANGED <<body, hashed, reads, existedAtStart>>

Next ==
    \E r \in Reqs :
        \/ Receive(r)
        \/ FindUnique(r)
        \/ Hash(r)
        \/ Create(r)

Spec == Init /\ [][Next]_vars

\* --------------------------------------------------------------- properties

\* A field value that is missing or empty, in the claims' own words.
Blank(v) == v \in {Missing, Empty}

\* Request r carries an object with a non-empty name, email and password.
Valid(r) ==
    /\ body[r].kind = "object"
    /\ ~Blank(body[r].name) /\ ~Blank(body[r].email)
    /\ ~Blank(body[r].password)

\* Request r carries an object in which one of the three fields is missing
\* or empty.
Incomplete(r) ==
    /\ body[r].kind = "object"
    /\ Blank(body[r].name) \/ Blank(body[r].email) \/ Blank(body[r].password)

Done(r) == pc[r] = "done"

SixResponses ==
    {Created, BadRequest, Conflict, ConfigError, DatabaseError,
     UnexpectedError}

\* The failures injected into a store call or into the hasher.
Faults == StoreErrors \cup {HashErr}

\* C1: in every reachable state at most one Account exists per email
\* address, whatever the interleaving of the registration requests.
C1_OneAccountPerEmail ==
    \A a1 \in store : \A a2 \in store : a1.email = a2.email => a1 = a2

\* C1 witness: two requests with the same email both passed the existence
\* check and both called create; one Account with that email exists.
C1_Witness ==
    \E r1 \in Reqs : \E r2 \in Reqs :
        /\ r1 # r2
        /\ Done(r1) /\ Done(r2)
        /\ body[r1].email = body[r2].email
        /\ creates[r1] = 1 /\ creates[r2] = 1
        /\ Cardinality(AccountsWith(body[r1].email)) = 1

\* C2 (as claimed): a request whose insert is rejected by the store's
\* uniqueness constraint, after it passed the existence check, is answered
\* with the 409 conflict response and not with a 500.
C2_RejectedInsertIsConflict ==
    \A r \in Reqs :
        (Done(r) /\ creates[r] = 1 /\ caught[r] = UniqueErr)
            => resp[r] = Conflict

\* C3 (as claimed): a valid request that arrives when an Account with its
\* email already exists returns 409, performs no insert, and the number of
\* Accounts with that email remains 1.
C3_ExistingEmailAlwaysConflict ==
    \A r \in Reqs :
        (Done(r) /\ Valid(r) /\ existedAtStart[r])
            => /\ resp[r] = Conflict
               /\ creates[r] = 0 /\ inserted[r] = 0
               /\ Cardinality(AccountsWith(body[r].email)) = 1

\* C3 (amended): a valid request that arrives when an Account with its email
\* already exists never calls create and leaves the number of Accounts with
\* that email at 1; it returns 409 unless the existence lookup itself fails,
\* in which case it returns the 500 the catch block assigns to that failure.
C3_ExistingEmailConflict ==
    \A r \in Reqs :
        (Valid(r) /\ existedAtStart[r])
            => /\ creates[r] = 0 /\ inserted[r] = 0
               /\ hashed[r] = NoHash
               /\ Cardinality(AccountsWith(body[r].email)) = 1
               /\ Done(r) =>
                    IF caught[r] = NoError
                    THEN resp[r] = Conflict
                    ELSE /\ caught[r] \in StoreErrors
                         /\ resp[r].status = 500

\* C3 witness: the same valid payload posted twice in sequence, answered 201
\* and then 409.
C3_Witness ==
    \E r1 \in Reqs : \E r2 \in Reqs :
        /\ r1 # r2
        /\ body[r1] = body[r2] /\ Valid(r1)
        /\ resp[r1] = Created
        /\ existedAtStart[r2] /\ resp[r2] = Conflict

\* C4: a valid request, for whose email no other request has created an
\* Account, and during which neither the store nor the hasher fails, returns
\* 201, and exactly one Account with that email exists, holding the request's
\* name and email and the cost-10 bcrypt hash of its password, not the
\* password itself.
C4_ValidRegistrationSucceeds ==
    \A r \in Reqs :
        (/\ Done(r) /\ Valid(r)
         /\ caught[r] \notin Faults
         /\ \A o \in Reqs \ {r} :
               body[o].email = body[r].email => inserted[o] = 0)
            => /\ resp[r] = Created
               /\ Cardinality(AccountsWith(body[r].email)) = 1
               /\ \A a \in AccountsWith(body[r].email) :
                    /\ a.name = body[r].name
                    /\ a.hashedPassword = hashed[r]
                    /\ a.hashedPassword.kind = "bcrypt"
                    /\ a.hashedPassword.cost = SaltRounds
                    /\ a.hashedPassword.digestOf = body[r].password
                    /\ a.hashedPassword # Plain(body[r].password)

\* C4 witness: a valid request was answered 201 while another request with
\* the same email was refused.
C4_Witness ==
    \E r \in Reqs : \E o \in Reqs \ {r} :
        /\ Valid(r) /\ resp[r] = Created
        /\ body[o].email = body[r].email /\ Done(o) /\ inserted[o] = 0

C6_InitFailureIsConfigError ==
    \A r \in Reqs :
        (Done(r) /\ caught[r] \in InitErrors)
            => /\ Valid(r)
               /\ resp[r] = ConfigError
               /\ inserted[r] = 0
               /\ reads[r] = 1

\* C6 witness: create failed with an initialization error whose message does
\* not mention DATABASE_URL.
C6_Witness ==
    \E r \in Reqs :
        /\ Done(r) /\ creates[r] = 1
        /\ caught[r] \in InitErrors /\ ~caught[r].mentionsDbUrl

\* C7: every request that has started either still has a step to take or has
\* been answered with exactly one of the six fixed responses; nothing else
\* leaves the handler, and the response carries neither the password nor the
\* caught error's text.
C7_AlwaysOneOfSixResponses ==
    \A r \in Reqs :
        /\ pc[r] \in {"idle", "lookup", "hash", "create", "done"}
        /\ pc[r] \in {"lookup", "hash", "create"}
              => /\ resp[r] = NoResp
                 /\ ENABLED (FindUnique(r) \/ Hash(r) \/ Create(r))
        /\ pc[r] = "idle" => resp[r] = NoResp
        /\ Done(r)
              => /\ resp[r] \in SixResponses
                 /\ resp[r].message \notin Passwords
                 /\ caught[r] # NoError =>
                        /\ resp[r].message # caught[r].name
                        /\ resp[r].message # caught[r].code

\* C7 witness: requests ended by a parse failure and by a hasher failure were
\* both answered.
C7_Witness ==
    \E r1 \in Reqs : \E r2 \in Reqs :
        /\ Done(r1) /\ caught[r1] = SyntaxErr
        /\ Done(r2) /\ caught[r2] = HashErr

\* C8 (as claimed): every request performs exactly one store read, exactly
\* one write on the success path and none on any other path.
C8_ExactlyOneReadPerRequest ==
    \A r \in Reqs :
        Done(r) => /\ reads[r] = 1
                   /\ resp[r] = Created => inserted[r] = 1
                   /\ resp[r] # Created => inserted[r] = 0

\* C8 (amended): a request performs exactly one store read if it passed
\* validation and none if it was turned away at parsing or validation; it
\* performs exactly one write on the success path and none on any other
\* path; and neither findUnique nor create is called a second time.
C8_OneReadOncePastValidation ==
    \A r \in Reqs :
        /\ reads[r] <= 1 /\ creates[r] <= 1 /\ inserted[r] <= creates[r]
        /\ Done(r) =>
              /\ reads[r] = IF Valid(r) THEN 1 ELSE 0
              /\ resp[r] = Created => inserted[r] = 1 /\ creates[r] = 1
              /\ resp[r] # Created => inserted[r] = 0

\* C8 witness: one request answered 201 after one read and one write, one
\* request answered 400 after no read.
C8_Witness ==
    \E r1 \in Reqs : \E r2 \in Reqs :
        /\ resp[r1] = Created /\ reads[r1] = 1 /\ inserted[r1] = 1
        /\ resp[r2] = BadRequest /\ reads[r2] = 0

\* C9: a request is answered 201 exactly when its own insert committed an
\* Account; a request answered 400, 409 or 500 has added none; and of the
\* requests carrying one email at most one is answered 201.
C9_CreatedIffInserted ==
    /\ \A r \in Reqs :
          /\ ~Done(r) => inserted[r] = 0
          /\ Done(r) =>
                /\ resp[r] = Created <=> inserted[r] = 1
                /\ resp[r].status \in {400, 409, 500} => inserted[r] = 0
    /\ \A r1 \in Reqs : \A r2 \in Reqs :
          (r1 # r2 /\ body[r1].email = body[r2].email)
              => ~(resp[r1] = Created /\ resp[r2] = Created)
    /\ Cardinality(store) = Cardinality({r \in Reqs : resp[r] = Created})

\* C9 witness: two requests with the same email raced past the existence
\* check; one was answered 201, the other's insert was rejected.
C9_Witness ==
    \E r1 \in Reqs : \E r2 \in Reqs :
        /\ body[r1].email = body[r2].email
        /\ resp[r1] = Created
        /\ Done(r2) /\ creates[r2] = 1 /\ caught[r2] = UniqueErr

\* C10: a caught failure gets exactly one of the three 500 messages: the
\* configuration message for an initialization failure or a message that
\* mentions DATABASE_URL, the database message for any other store failure,
\* the unexpected message for the rest (unparsable body, hasher failure);
\* and a response is a 500 exactly when a failure was caught.
C10_FailurePartition ==
    \A r \in Reqs :
        Done(r) =>
            /\ resp[r].status = 500 <=> caught[r] # NoError
            /\ caught[r] # NoError =>
                  /\ (caught[r] \in InitErrors \/ caught[r].mentionsDbUrl)
                        => resp[r] = ConfigError
                  /\ (/\ caught[r] \in StoreErrors \cup {UniqueErr}
                      /\ caught[r] \notin InitErrors
                      /\ ~caught[r].mentionsDbUrl)
                        => resp[r] = DatabaseError
                  /\ caught[r] \in {SyntaxErr, TypeErr, HashErr}
                        => resp[r] = UnexpectedError
                  /\ caught[r] \in StoreErrors \cup {UniqueErr}
                        => resp[r] # UnexpectedError

\* C10 witness: a store failure answered with the database message and a
\* hasher failure answered with the unexpected message.
C10_Witness ==
    \E r1 \in Reqs : \E r2 \in Reqs :
        /\ caught[r1] \in StoreErrors /\ resp[r1] = DatabaseError
        /\ caught[r2] = HashErr /\ resp[r2] = UnexpectedError

====
